---- MODULE Spec2Model ----
(***************************************************************************)
(* A model of the nonogram solver of src/solver.js and of the Board        *)
(* accessors of src/board.js it relies on.                                 *)
(*                                                                         *)
(* A cell of a line or a board is, in the source, a number (0 is blank,    *)
(* 1+ a colour), null (unknown) or an array of numbers (the values the     *)
(* cell may still take).  Here a cell is a record [k, v]: k says which of  *)
(* the three it is and v is the array ("num": the one value, "null": the   *)
(* empty sequence), so that cells of different kinds can be compared.      *)
(* Positions and clue indexes are 0-based as in the source; sequences are  *)
(* 1-based, so the cell at position p of a line l is l[p + 1].             *)
(***************************************************************************)
EXTENDS Integers, Sequences, FiniteSets, TLC

VARIABLES
    line,     \* LineSpec: the line array the caller holds (solved in place)
    clues,    \* LineSpec: the clue sequence the caller passes
    log,      \* LineSpec: one record per finished call of simpleSolveLine
    board,    \* Spec: the caller's Board (rows, cols, rowClues, colClues, data)
    batch,    \* Spec: the simpleSolveBatch call running on the caller's board
    calls,    \* Spec: one record per finished call of simpleSolveBatch
    search,   \* Spec: the findPossibleSolutions call (stack, solutions, visitedSet)
    builder,  \* BuilderSpec: the Builder and its buildPuzzle call
    scores,   \* ScoreSpec: two candidates and the scores _scoreStats gave them
    tokens    \* TokenSpec: two boards and the tokens makeToken gave them

vars == <<line, clues, log, board, batch, calls, search, builder, scores, tokens>>

(***************************************************************************)
(* Bounds of the model.                                                    *)
(***************************************************************************)
MaxLen == 3        \* longest line LineSpec solves
MaxCalls == 2      \* calls of simpleSolveLine made in a row on one line
MaxClues == 2      \* longest clue sequence LineSpec passes
MaxCols == 2       \* columns of the boards of Spec
MaxPasses == 3     \* passes of the loop of simpleSolveBatch followed in one call
MaxBatchCalls == 2 \* calls of simpleSolveBatch made in a row on one board

MaxDepth == 3      \* greatest solutionDepth and targetSolutionDepth ScoreSpec scores
MaxDeadEnds == 2   \* greatest deadEnds and targetDeadEnds ScoreSpec scores

MaxSets == 2       \* cells TokenSpec sets in the second board

MinRows == 2       \* rows of the boards of Spec: the fewest a Board keeps

Colours == {1, 2}  \* the colours clues and cells use (0 is blank)

\* the values of a cell: blank (0) and the colours
Values == {0} \cup Colours

\* The arrays a solved crossing line leaves in a cell: two of the values.
ValuePairs == {p \in ({0} \cup Colours) \X Colours : p[1] < p[2]}

(***************************************************************************)
(* Cell values.                                                            *)
(***************************************************************************)
Null == [k |-> "null", v |-> <<>>]
Num(n) == [k |-> "num", v |-> <<n>>]
Arr(s) == [k |-> "arr", v |-> s]
IsNull(c) == c.k = "null"
IsArray(c) == c.k = "arr"

Min(S) == CHOOSE x \in S : \A y \in S : x <= y

\* Array.prototype.indexOf(el) >= 0
Has(s, el) == \E i \in DOMAIN s : s[i] = el

\* curLine[a..b] = val, positions 0-based and inclusive
SetCells(cur, a, b, val) ==
    [i \in DOMAIN cur |-> IF i - 1 >= a /\ i - 1 <= b THEN val ELSE cur[i]]

(***************************************************************************)
(* Solver.simpleSolveLine and its helpers.                                 *)
(***************************************************************************)
RECURSIVE LineValuesFrom(_, _, _)
LineValuesFrom(cl, i, acc) ==
    IF i > Len(cl) THEN acc
    ELSE LineValuesFrom(cl, i + 1,
             IF Has(acc, cl[i].value) THEN acc ELSE Append(acc, cl[i].value))

\* the set of all the values in the line clues, in order of first use
lineValues(cl) == LineValuesFrom(cl, 1, <<>>)

\* Given a value, the array of possible values for that cell
toKnownArray(value, lv) ==
    IF IsArray(value) THEN value.v
    ELSE IF IsNull(value) THEN Append(lv, 0)
    ELSE value.v

\* Checks to see if 2 sets of values are the same.  Two non-arrays are
\* compared with ===; otherwise a non-array x becomes [ x ], and [ null ]
\* equals no array of numbers.
valueSetsEqual(a, b) ==
    IF ~IsArray(a) /\ ~IsArray(b) THEN a = b
    ELSE IF IsNull(a) \/ IsNull(b) THEN FALSE
    ELSE /\ Len(a.v) = Len(b.v)
         /\ \A i \in DOMAIN a.v : Has(b.v, a.v[i])

\* A mutant of valueSetContains: the two arrays are taken the wrong way round.
valueSetContainsSwapped(set, otherSet, lv) ==
    IF IsNull(set) THEN TRUE
    ELSE \A i \in DOMAIN toKnownArray(set, lv) :
             Has(toKnownArray(otherSet, lv), toKnownArray(set, lv)[i])

\* Checks if the 'set' possible value set wholly contains the 'otherSet'
valueSetContains(set, otherSet, lv) ==
    IF IsNull(set) THEN TRUE
    ELSE \A i \in DOMAIN toKnownArray(otherSet, lv) :
             Has(toKnownArray(set, lv), toKnownArray(otherSet, lv)[i])

\* Remove el from set (the first occurrence); the result is an array
valueSetRemove(set, el, lv) ==
    LET s == toKnownArray(set, lv)
    IN  IF Has(s, el)
        THEN LET idx == Min({i \in DOMAIN s : s[i] = el})
             IN  Arr(SubSeq(s, 1, idx - 1) \o SubSeq(s, idx + 1, Len(s)))
        ELSE Arr(s)

RECURSIVE PushNew(_, _, _)
PushNew(res, s, i) ==
    IF i > Len(s) THEN res
    ELSE PushNew(IF Has(res, s[i]) THEN res ELSE Append(res, s[i]), s, i + 1)

\* A mutant of union: the values of the second array are not added.
unionOfFirstOnly(a, b) == PushNew(<<>>, a, 1)

union(a, b) == PushNew(PushNew(<<>>, a, 1), b, 1)

\* A mutant of trackPossibleLineSolution: a later line solution is ignored.
trackFirstLineSolutionOnly(st, lv) ==
    IF ~st.has THEN [st EXCEPT !.known = st.cur, !.has = TRUE] ELSE st

\* Given a valid line solution st.cur, updates st.known (knownCells; st.has
\* says whether it is set) with the union, cell by cell.  cur === known holds
\* for equal numbers (or two nulls), never for arrays.
trackPossibleLineSolution(st, lv) ==
    IF ~st.has THEN [st EXCEPT !.known = st.cur, !.has = TRUE]
    ELSE [st EXCEPT !.known =
             [i \in DOMAIN st.cur |->
                 IF ~IsArray(st.cur[i]) /\ st.cur[i] = st.known[i]
                 THEN st.known[i]
                 ELSE Arr(union(toKnownArray(st.cur[i], lv),
                                toKnownArray(st.known[i], lv)))]]

\* A mutant of runOverrunsLine: off by one, a run may not end at the last cell.
runOverrunsLineOffByOne(pos, run, length) == pos + run >= length

\* Make sure the run won't overrun the end of the line
runOverrunsLine(pos, run, length) == pos + run > length

\* A mutant of noClueLine: the cells are left as they are.
noClueLineUnchanged(cur) == cur

\* Degenerate case of 0 clues.  Line must be all blank.
noClueLine(cur) == [i \in DOMAIN cur |-> Num(0)]

RECURSIVE tryCluePositions(_, _, _, _)
RECURSIVE tryPositionsFrom(_, _, _, _)

\* The loop "for (pos = nextPossibleCluePos; pos < length; pos++)" of
\* tryCluePositions from position pos on.  ctx holds what the closure reads
\* (line, clues, lineValues, length), st what it writes (curLine, knownCells).
tryPositionsFrom(ctx, st, clueIdx, pos) ==
    IF pos >= ctx.length THEN st
    ELSE
    LET lv == ctx.lv
        clue == ctx.clues[clueIdx + 1]
        isLast == clueIdx = Len(ctx.clues) - 1
        end == pos + clue.run
        canBlank(i) == valueSetContains(ctx.line[i + 1], Num(0), lv)
        canClue(i) == valueSetContains(ctx.line[i + 1], Num(clue.value), lv)
        \* curLine[pos] = 0; continue;
        skip(s) == tryPositionsFrom(ctx,
                       [s EXCEPT !.cur = SetCells(s.cur, pos, pos, Num(0))],
                       clueIdx, pos + 1)
        \* if (valueSetContains(line[pos], 0)) { curLine[pos] = 0; continue; } else break;
        advance(s) == IF canBlank(pos) THEN skip(s) ELSE s
        \* lines 411-438: the run is placed at pos
        place(s) ==
            LET s1 == [s EXCEPT !.cur =
                          SetCells(s.cur, pos, end - 1, Num(clue.value))]
                sameNext == ctx.clues[clueIdx + 2].value = clue.value
                s2 == IF isLast THEN trackPossibleLineSolution(s1, lv)
                      ELSE tryCluePositions(ctx, s1, clueIdx + 1,
                               IF sameNext THEN end + 1 ELSE end)
            IN  advance(s2)
    IN
    IF valueSetsEqual(ctx.line[pos + 1], Num(0)) THEN skip(st)
    ELSE IF ~canClue(pos) THEN advance(st)
    ELSE IF runOverrunsLine(pos, clue.run, ctx.length) THEN st
    ELSE
    LET bad == {i \in pos..(end - 1) : ~canClue(i)}
        curCheckPos == IF bad = {} THEN end ELSE Min(bad)
        foundDefiniteNonBlank ==
            \E i \in pos..(IF bad = {} THEN end - 1 ELSE curCheckPos) :
                ~canBlank(i)
    IN
    IF curCheckPos # end
    THEN IF foundDefiniteNonBlank THEN st
         ELSE tryPositionsFrom(ctx,
                  [st EXCEPT !.cur = SetCells(st.cur, pos, curCheckPos, Num(0))],
                  clueIdx, curCheckPos + 1)
    ELSE IF end < ctx.length /\ valueSetsEqual(ctx.line[end + 1], Num(clue.value))
    THEN advance(st)
    ELSE
    LET \* Remove this clue's value from the next cell's potential value set
        st1 == IF end < ctx.length
               THEN [st EXCEPT !.cur[end + 1] =
                        valueSetRemove(st.cur[end + 1], clue.value, lv)]
               ELSE st
    IN
    IF isLast
    THEN LET nonBlank == {i \in end..(ctx.length - 1) : ~canBlank(i)}
             stop == IF nonBlank = {} THEN ctx.length ELSE Min(nonBlank)
             st2 == [st1 EXCEPT !.cur = SetCells(st1.cur, end, stop - 1, Num(0))]
         IN  IF nonBlank # {} THEN advance(st2) ELSE place(st2)
    ELSE IF end >= ctx.length THEN st1
    ELSE IF ctx.clues[clueIdx + 2].value = clue.value
    THEN IF ~canBlank(end) THEN advance(st1)
         ELSE place([st1 EXCEPT !.cur = SetCells(st1.cur, end, end, Num(0))])
    ELSE place(st1)

\* Recursive function that tries all possible positions of each clue
tryCluePositions(ctx, st, clueIdx, nextPossibleCluePos) ==
    IF Len(ctx.clues) = 0
    THEN trackPossibleLineSolution([st EXCEPT !.cur = noClueLine(st.cur)], ctx.lv)
    ELSE tryPositionsFrom(ctx, st, clueIdx, nextPossibleCluePos)

\* A mutant of earlyCheckUnknowns: the early return is never taken.
earlyCheckAlwaysPasses(ln) == TRUE

\* Make sure line contains at least one unknown
earlyCheckUnknowns(ln) ==
    \E i \in DOMAIN ln : IsNull(ln[i]) \/ (IsArray(ln[i]) /\ Len(ln[i].v) > 1)

\* The test of lines 456-459 that decides whether line[i] = knownCells[i] is
\* done and the cell counted as solved.
cellSolved(knownCell, lineCell, lv) ==
    LET knownPossibleValues == Len(toKnownArray(knownCell, lv))
        linePossibleValues == Len(toKnownArray(lineCell, lv))
    IN  \/ knownPossibleValues <= linePossibleValues
        \/ IsNull(lineCell) /\ knownPossibleValues = linePossibleValues

\* Simplify value sets of 1 element, and full value sets to unknown
simplifyCell(cell, lv) ==
    IF IsArray(cell)
    THEN IF Len(cell.v) = 1 THEN Num(cell.v[1])
         ELSE IF Len(cell.v) = Len(lv) + 1 THEN Null
         ELSE cell
    ELSE cell

\* Lines 448-481: writes knownCells into the line, counts, and simplifies.
\* The throw of line 465 leaves the cells up to the offending one written.
tabulateLine(ln, known, lv) ==
    LET narrowed == [i \in DOMAIN ln |->
                        IF cellSolved(known[i], ln[i], lv) THEN known[i] ELSE ln[i]]
        contradicts == {i \in DOMAIN ln :
                           ~valueSetContains(narrowed[i], known[i], lv)}
    IN  IF contradicts # {}
        THEN [status |-> "throw",
              line |-> [i \in DOMAIN ln |->
                           IF i <= Min(contradicts) THEN narrowed[i] ELSE ln[i]],
              numSolved |-> 0, numUnknowns |-> 0]
        ELSE [status |-> "ok",
              line |-> [i \in DOMAIN ln |-> simplifyCell(narrowed[i], lv)],
              numSolved |->
                  Cardinality({i \in DOMAIN ln : cellSolved(known[i], ln[i], lv)}),
              numUnknowns |->
                  Cardinality({i \in DOMAIN ln :
                                  Len(toKnownArray(narrowed[i], lv)) # 1})]

\* Solver.simpleSolveLine(line, clues).  status is "ok" (the pair
\* [ numSolved, numUnknowns ] is returned), "null" (no valid line solution)
\* or "throw" ('Valid line solution contradicts line?'); line is the caller's
\* array after the call.
simpleSolveLine(ln, cl) ==
    IF ~earlyCheckUnknowns(ln)
    THEN [status |-> "ok", line |-> ln, numSolved |-> 0, numUnknowns |-> 0]
    ELSE LET lv == lineValues(cl)
             st == tryCluePositions(
                       [line |-> ln, clues |-> cl, lv |-> lv, length |-> Len(ln)],
                       [cur |-> ln, known |-> <<>>, has |-> FALSE], 0, 0)
         IN  IF ~st.has
             THEN [status |-> "null", line |-> ln, numSolved |-> 0, numUnknowns |-> 0]
             ELSE tabulateLine(ln, st.known, lv)

(***************************************************************************)
(* Board (src/board.js): the accessors and checks the solver uses.  data   *)
(* is row-major; cell (row, col), both 0-based, is data[row * cols + col]. *)
(***************************************************************************)
get(b, row, col) == b.data[row * b.cols + col + 1]

set(b, row, col, value) == [b EXCEPT !.data[row * b.cols + col + 1] = value]

getRow(b, row) == [i \in 1..b.cols |-> get(b, row, i - 1)]

getCol(b, col) == [i \in 1..b.rows |-> get(b, i - 1, col)]

setRow(b, row, ln) ==
    [b EXCEPT !.data = [x \in DOMAIN b.data |->
        IF (x - 1) \div b.cols = row THEN ln[((x - 1) % b.cols) + 1] ELSE b.data[x]]]

setCol(b, col, ln) ==
    [b EXCEPT !.data = [x \in DOMAIN b.data |->
        IF (x - 1) % b.cols = col THEN ln[((x - 1) \div b.cols) + 1] ELSE b.data[x]]]

\* The clues _makeCluesFromData(false, false) derives for one line of
\* numbers, from position i (1-based) on: one clue per run of a non-blank
\* value.
RECURSIVE lineCluesFrom(_, _)
lineCluesFrom(ln, i) ==
    IF i > Len(ln) THEN <<>>
    ELSE LET differs == {j \in i..Len(ln) : ln[j] # ln[i]}
             stop == IF differs = {} THEN Len(ln) + 1 ELSE Min(differs)
         IN  IF ln[i] = Num(0) THEN lineCluesFrom(ln, stop)
             ELSE <<[value |-> ln[i].v[1], run |-> stop - i]>> \o lineCluesFrom(ln, stop)

\* Board._makeCluesFromData(false, false) of a board whose cells are numbers
makeCluesFromData(b) ==
    [rowClues |-> [r \in 1..b.rows |-> lineCluesFrom(getRow(b, r - 1), 1)],
     colClues |-> [c \in 1..b.cols |-> lineCluesFrom(getCol(b, c - 1), 1)]]

\* Board.validate(): the clues re-derived from the data equal the clues of
\* the board.  A cell that is no number makes _makeCluesFromData throw
\* 'Cannot build clues from unknown grid' when the run it starts ends, so
\* that validate() returns true for boards of numbers only.
validate(b) ==
    /\ \A x \in DOMAIN b.data : b.data[x].k = "num"
    /\ makeCluesFromData(b).rowClues = b.rowClues
    /\ makeCluesFromData(b).colClues = b.colClues

\* Board.getMaxValue(): the maximum value present across clues and data
getMaxValue(b) ==
    LET inData == {b.data[x].v[1] : x \in {y \in DOMAIN b.data : b.data[y].k = "num"}}
        inClues(cs) == UNION {{cs[l][i].value : i \in DOMAIN cs[l]} : l \in DOMAIN cs}
        all == {0} \cup inData \cup inClues(b.rowClues) \cup inClues(b.colClues)
    IN  CHOOSE m \in all : \A x \in all : x <= m

\* Board.makeToken(): data.map((x) => (x === null) ? '?' : x).join(',').
\* The string is modelled by the sequence of the pieces its commas separate:
\* an array cell is written as its values joined by commas, so it gives one
\* piece per value (and one empty piece if it is empty).
cellToken(cell) ==
    IF IsNull(cell) THEN <<"?">>
    ELSE IF cell.v = <<>> THEN <<"">>
    ELSE [i \in DOMAIN cell.v |-> ToString(cell.v[i])]

RECURSIVE tokenFrom(_, _)
tokenFrom(data, x) ==
    IF x > Len(data) THEN <<>> ELSE cellToken(data[x]) \o tokenFrom(data, x + 1)

makeToken(b) == tokenFrom(b.data, 1)

(***************************************************************************)
(* Solver.simpleSolveBatch.  Its loop "for (;;)" does not end on every     *)
(* board, so the model follows it pass by pass.                            *)
(***************************************************************************)
\* Lines 134-147 for line k of a pass (row k for k < rows, column k - rows
\* after that; lines 148-161 are the same for columns).  st holds the board,
\* numSteps, solvedOne and how the pass ended so far ("pass": no return, no
\* throw).
solveLine(st, k) ==
    LET b == st.board
        isRow == k < b.rows
        ln == IF isRow THEN getRow(b, k) ELSE getCol(b, k - b.rows)
        cl == IF isRow THEN b.rowClues[k + 1] ELSE b.colClues[k - b.rows + 1]
    IN  CHOOSE out \in
            {IF res.status = "null" THEN [st EXCEPT !.ended = "contradiction"]
             ELSE IF res.status = "throw" THEN [st EXCEPT !.ended = "throw"]
             ELSE IF res.numSolved > 0
             THEN [st EXCEPT !.board = IF isRow THEN setRow(b, k, res.line)
                                       ELSE setCol(b, k - b.rows, res.line),
                             !.numSteps = @ + 1,
                             !.solvedOne = TRUE]
             ELSE st : res \in {simpleSolveLine(ln, cl)}} : TRUE

\* Lines 133-162: the lines of one pass from line k on, up to the first
\* return or throw.
RECURSIVE solveLinesFrom(_, _)
solveLinesFrom(st, k) ==
    IF k >= st.board.rows + st.board.cols \/ st.ended # "pass" THEN st
    ELSE CHOOSE out \in {solveLinesFrom(next, k + 1) : next \in {solveLine(st, k)}} : TRUE

\* A mutant of countUnknowns: the test counts the cells that are not null.
countNotNull(data) == Cardinality({x \in DOMAIN data : ~IsNull(data[x])})

\* Lines 165-168: the number of null cells of the data
countUnknowns(data) == Cardinality({x \in DOMAIN data : IsNull(data[x])})

\* A mutant of batchPass: the loop is left after its first pass, whether a
\* line was solved or not.
batchPassThenBreak(b, numSteps) ==
    CHOOSE out \in
        {[board |-> st.board,
          numSteps |-> st.numSteps,
          ended |-> IF st.ended # "pass" THEN st.ended ELSE "break",
          remainingUnknowns |-> countUnknowns(st.board.data)] :
         st \in {solveLinesFrom([board |-> b, numSteps |-> numSteps,
                                 solvedOne |-> FALSE, ended |-> "pass"], 0)}} : TRUE

\* One pass of the loop of simpleSolveBatch on board b with numSteps steps
\* so far.  ended is "contradiction" (return of lines 137/152), "throw",
\* "break" (no line was solved: the loop is left and lines 165-173 return) or
\* "again" (solvedOne: the loop goes round once more).
batchPass(b, numSteps) ==
    CHOOSE out \in
        {[board |-> st.board,
          numSteps |-> st.numSteps,
          ended |-> IF st.ended # "pass" THEN st.ended
                    ELSE IF st.solvedOne THEN "again" ELSE "break",
          remainingUnknowns |-> countUnknowns(st.board.data)] :
         st \in {solveLinesFrom([board |-> b, numSteps |-> numSteps,
                                 solvedOne |-> FALSE, ended |-> "pass"], 0)}} : TRUE

(***************************************************************************)
(* Solver.findPossibleSolutions.  The recursion of findSolutionsFromState  *)
(* is a stack of frames, one per call; each frame owns the board of its    *)
(* solver (partialCopyBoard deep-copies the data).                         *)
(***************************************************************************)
\* Solver.partialCopyBoard(board): the data is copied, the clues are shared
partialCopyBoard(b) ==
    [rows |-> b.rows, cols |-> b.cols, rowClues |-> b.rowClues,
     colClues |-> b.colClues, data |-> b.data]

\* the frame of a call findSolutionsFromState(solver): simpleSolveBatch is
\* about to run on solver.board
newFrame(b) ==
    [board |-> b, pc |-> "batch", numSteps |-> 0, passes |-> 0,
     contradiction |-> FALSE, remainingUnknowns |-> 0, changed |-> FALSE,
     row |-> 0, col |-> 0, possibleValues |-> <<>>, next |-> 0]

\* Lines 68-72: the first cell, in row-major order, that is null or an array
firstUnknown(b) ==
    Min({x \in DOMAIN b.data : IsNull(b.data[x]) \/ IsArray(b.data[x])})

\* return from findSolutionsFromState: the frame is dropped; the search is
\* over when the first call returns
popFrame(srch) ==
    LET rest == SubSeq(srch.stack, 1, Len(srch.stack) - 1)
    IN  [srch EXCEPT !.stack = rest,
                     !.pc = IF rest = <<>> THEN "done" ELSE "running"]

\* Lines 75-79 for the value at index top.next of possibleValues: the cell is
\* set, and findSolutionsFromState is called on a copy of the solver; when
\* the values are used up the call returns (line 80).
branchNext(srch, top) ==
    IF top.next >= Len(top.possibleValues) THEN popFrame([srch EXCEPT
           !.stack[Len(srch.stack)] = top])
    ELSE LET tried == set(top.board, top.row, top.col,
                          Num(top.possibleValues[top.next + 1]))
         IN  [srch EXCEPT
                 !.stack = SubSeq(srch.stack, 1, Len(srch.stack) - 1)
                           \o <<[top EXCEPT !.board = tried, !.pc = "branching",
                                            !.next = @ + 1]>>
                           \o <<newFrame(partialCopyBoard(tried))>>]

\* Lines 51-83 of findSolutionsFromState, after simpleSolveBatch returned
\* in the frame top (the last of the stack).
afterBatch(srch, top) ==
    IF top.contradiction THEN popFrame(srch)
    ELSE IF makeToken(top.board) \in srch.visitedSet THEN popFrame(srch)
    ELSE
    LET marked == [srch EXCEPT !.visitedSet = @ \cup {makeToken(top.board)}]
    IN  IF top.remainingUnknowns = 0
        THEN popFrame([marked EXCEPT
                 !.solutions = Append(@, partialCopyBoard(top.board))])
        ELSE IF \A x \in DOMAIN top.board.data :
                    ~IsNull(top.board.data[x]) /\ ~IsArray(top.board.data[x])
        THEN popFrame(marked)
        ELSE LET x == firstUnknown(top.board)
                 value == top.board.data[x]
             IN  branchNext(marked,
                     [top EXCEPT
                         !.row = (x - 1) \div top.board.cols,
                         !.col = (x - 1) % top.board.cols,
                         !.possibleValues =
                             IF IsNull(value)
                             THEN [i \in 1..(srch.maxValue + 1) |-> i - 1]
                             ELSE value.v,
                         !.next = 0])

(***************************************************************************)
(* Spec: a caller holds a board and calls simpleSolveBatch on it, or       *)
(* findPossibleSolutions.  The calls are synchronous: while one runs, no   *)
(* other starts.                                                           *)
(***************************************************************************)
NoBoard == [rows |-> 0, cols |-> 0, rowClues |-> <<>>, colClues |-> <<>>,
            data |-> <<>>]

NoBatch == [pc |-> "idle", numSteps |-> 0, passes |-> 0, entry |-> <<>>,
            changed |-> FALSE]

NoSearch == [pc |-> "none", board |-> NoBoard, stack |-> <<>>,
             solutions |-> <<>>, visitedSet |-> {}, maxValue |-> 0]

\* no Builder was made, no score was asked for
NoBuilder == [pc |-> "none"]

NoScores == <<>>

\* no token was made
NoTokens == <<>>

\* The boards of Spec: the clues are those of a picture (buildCluesFromData
\* of a filled board); the cells in known show either the picture or, as the
\* data of a new Board does, blanks; the others are unknown, but for at most
\* one cell that holds a possibility set of two values (poss is the cell and
\* its set, or <<0, <<>>>> for none).  The clues of at most one line are
\* replaced by clues that cannot fit the line.
Cells == 1..(MinRows * MaxCols)

Pictures == [Cells -> Values]

pictureBoard(pic) ==
    [rows |-> MinRows, cols |-> MaxCols, rowClues |-> <<>>, colClues |-> <<>>,
     data |-> [x \in Cells |-> Num(pic[x])]]

puzzleBoard(pictureClues, shown, known, poss) ==
    [rows |-> MinRows, cols |-> MaxCols,
     rowClues |-> pictureClues.rowClues,
     colClues |-> pictureClues.colClues,
     data |-> [x \in Cells |-> IF x \in known THEN Num(shown[x])
                               ELSE IF x = poss[1] THEN Arr(poss[2])
                               ELSE Null]]

\* clues that cannot fit line k of the board (row k for k < rows, column
\* k - rows after that; no line for k = -1): one run, longer than the line
withOverlongClue(pictureClues, k) ==
    [rowClues |-> [r \in 1..MinRows |->
                      IF r - 1 = k THEN <<[value |-> 1, run |-> MaxCols + 1]>>
                      ELSE pictureClues.rowClues[r]],
     colClues |-> [c \in 1..MaxCols |->
                      IF MinRows + c - 1 = k THEN <<[value |-> 1, run |-> MinRows + 1]>>
                      ELSE pictureClues.colClues[c]]]

Init ==
    /\ \E pic \in Pictures :
       \E k \in -1..(MinRows + MaxCols - 1) :
       \E boardClues \in {withOverlongClue(makeCluesFromData(pictureBoard(pic)), k)} :
       \E shown \in {pic, [x \in Cells |-> 0]} :
       \E known \in SUBSET Cells :
       \E poss \in {<<0, <<>>>>} \cup (Cells \X ValuePairs) :
           board = puzzleBoard(boardClues, shown, known, poss)
    /\ batch = NoBatch
    /\ calls = <<>>
    /\ search = NoSearch
    /\ line = <<>>
    /\ clues = <<>>
    /\ log = <<>>
    /\ builder = NoBuilder
    /\ scores = NoScores
    /\ tokens = NoTokens

\* what a pass that ended in r does to the call of simpleSolveBatch that
\* entered with the data entry and has made passes passes before it
afterPass(r, entry, passes) ==
    IF r.ended = "again"
    THEN /\ batch' = [pc |-> "looping", numSteps |-> r.numSteps,
                      passes |-> passes + 1, entry |-> entry,
                      changed |-> r.board.data # board.data]
         /\ calls' = calls
    ELSE /\ batch' = NoBatch
         /\ calls' = Append(calls,
                [entry |-> entry, exit |-> r.board.data,
                 passes |-> passes + 1,
                 thrown |-> r.ended = "throw",
                 contradiction |-> r.ended = "contradiction",
                 steps |-> r.numSteps,
                 remainingUnknowns |-> r.remainingUnknowns])

\* new Solver(board).simpleSolveBatch(): the call and the first pass
SimpleSolveBatch ==
    /\ board # NoBoard
    /\ batch.pc = "idle"
    /\ search.pc # "running"
    /\ Len(calls) < MaxBatchCalls
    /\ \E r \in {batchPass(board, 0)} :
           /\ board' = r.board
           /\ afterPass(r, board.data, 0)
    /\ UNCHANGED <<search, line, clues, log, builder, scores, tokens>>

\* the loop of simpleSolveBatch goes round once more
BatchNextPass ==
    /\ batch.pc = "looping"
    /\ batch.passes < MaxPasses
    /\ \E r \in {batchPass(board, batch.numSteps)} :
           /\ board' = r.board
           /\ afterPass(r, batch.entry, batch.passes)
    /\ UNCHANGED <<search, line, clues, log, builder, scores, tokens>>

\* Solver.findPossibleSolutions(board), lines 31-47 and 86: the first call
\* of findSolutionsFromState is made on a copy of the board
FindPossibleSolutions ==
    /\ board # NoBoard
    /\ batch.pc = "idle"
    /\ search.pc = "none"
    /\ search' = [pc |-> "running",
                  board |-> board,
                  stack |-> <<newFrame(partialCopyBoard(board))>>,
                  solutions |-> <<>>, visitedSet |-> {},
                  maxValue |-> getMaxValue(board)]
    /\ UNCHANGED <<board, batch, calls, line, clues, log, builder, scores, tokens>>

\* A mutant of SearchBatchPass: the first call of findSolutionsFromState is
\* made on the caller's board, not on a copy of it, so that the passes of
\* that call write into the caller's board.
SearchBatchPassOnCallersBoard ==
    /\ search.pc = "running"
    /\ LET n == Len(search.stack)
           top == search.stack[n]
       IN  /\ top.pc = "batch"
           /\ top.passes < MaxPasses
           /\ \E r \in {batchPass(top.board, top.numSteps)} :
                /\ search' =
                     IF r.ended = "throw"
                     THEN [search EXCEPT !.pc = "thrown", !.stack = <<>>]
                     ELSE [search EXCEPT !.stack[n] =
                             [top EXCEPT
                                 !.board = r.board,
                                 !.numSteps = r.numSteps,
                                 !.passes = @ + 1,
                                 !.changed = r.board.data # top.board.data,
                                 !.pc = IF r.ended = "again" THEN "batch" ELSE "returned",
                                 !.contradiction = r.ended = "contradiction",
                                 !.remainingUnknowns = r.remainingUnknowns]]
                /\ board' = IF n = 1 THEN r.board ELSE board
    /\ UNCHANGED <<batch, calls, line, clues, log, builder, scores, tokens>>

\* one pass of solver.simpleSolveBatch() (line 50) in the innermost call of
\* findSolutionsFromState
SearchBatchPass ==
    /\ search.pc = "running"
    /\ LET n == Len(search.stack)
           top == search.stack[n]
       IN  /\ top.pc = "batch"
           /\ top.passes < MaxPasses
           /\ \E r \in {batchPass(top.board, top.numSteps)} : search' =
                IF r.ended = "throw"
                THEN [search EXCEPT !.pc = "thrown", !.stack = <<>>]
                ELSE [search EXCEPT !.stack[n] =
                        [top EXCEPT
                            !.board = r.board,
                            !.numSteps = r.numSteps,
                            !.passes = @ + 1,
                            !.changed = r.board.data # top.board.data,
                            !.pc = IF r.ended = "again" THEN "batch" ELSE "returned",
                            !.contradiction = r.ended = "contradiction",
                            !.remainingUnknowns = r.remainingUnknowns]]
    /\ UNCHANGED <<board, batch, calls, line, clues, log, builder, scores, tokens>>

\* the innermost call of findSolutionsFromState goes on after its
\* simpleSolveBatch returned, or after the call it made for one value of the
\* cell it branches on returned (line 78 sets the cell back to null)
SearchStep ==
    /\ search.pc = "running"
    /\ LET top == search.stack[Len(search.stack)]
       IN  /\ top.pc \in {"returned", "branching"}
           /\ search' =
                IF top.pc = "returned" THEN afterBatch(search, top)
                ELSE branchNext(search,
                         [top EXCEPT !.board = set(top.board, top.row, top.col, Null)])
    /\ UNCHANGED <<board, batch, calls, line, clues, log, builder, scores, tokens>>

Next ==
    \/ SimpleSolveBatch
    \/ BatchNextPass
    \/ FindPossibleSolutions
    \/ SearchBatchPass
    \/ SearchStep

Spec == Init /\ [][Next]_vars

(***************************************************************************)
(* Builder._scoreStats (src/unnamed/part_001).  The scores are JavaScript  *)
(* numbers; here they are exact fractions [n, d] in lowest terms, d > 0.   *)
(***************************************************************************)
RECURSIVE GCD(_, _)
GCD(a, b) == IF b = 0 THEN a ELSE GCD(b, a % b)

Abs(x) == IF x < 0 THEN -x ELSE x

Rat(n, d) ==
    LET g == GCD(Abs(n), Abs(d))
        sign == IF d < 0 THEN -1 ELSE 1
    IN  [n |-> sign * (n \div g), d |-> sign * (d \div g)]

RatAdd(a, b) ==
    LET g == GCD(a.d, b.d)
    IN  Rat(a.n * (b.d \div g) + b.n * (a.d \div g), (a.d \div g) * b.d)

RatMul(a, b) ==
    LET x == Rat(a.n, b.d)
        y == Rat(b.n, a.d)
    IN  [n |-> x.n * y.n, d |-> x.d * y.d]

RatDiv(a, b) == RatMul(a, [n |-> b.d, d |-> b.n])

\* a < b for fractions that are not negative, by their integer parts and
\* then the reciprocals of what is left
RECURSIVE RatLess(_, _)
RatLess(a, b) ==
    IF a.n \div a.d # b.n \div b.d THEN a.n \div a.d < b.n \div b.d
    ELSE IF b.n % b.d = 0 THEN FALSE
    ELSE IF a.n % a.d = 0 THEN TRUE
    ELSE RatLess([n |-> b.d, d |-> b.n % b.d], [n |-> a.d, d |-> a.n % a.d])

\* A mutant of sqErr: the error is not squared.
sqErrNotSquared(stat, target) ==
    IF target = 0 THEN Rat(1, 1) ELSE Rat(stat - target, target)

\* Lines 388-389: percentErr * percentErr
sqErr(stat, target) ==
    LET percentErr == IF target = 0 THEN Rat(1, 1) ELSE Rat(stat - target, target)
    IN  RatMul(percentErr, percentErr)

\* addToScore(stat, target, weight), lines 387-392; acc holds scoreMSE and
\* countMSE
addToScore(acc, stat, target, weight) ==
    [scoreMSE |->
         RatDiv(RatAdd(RatMul(acc.scoreMSE, Rat(acc.countMSE, 1)),
                       RatMul(sqErr(stat, target), weight)),
                RatAdd(Rat(acc.countMSE, 1), weight)),
     countMSE |-> acc.countMSE + 1]

\* Builder._scoreStats(stats, board) with the builder's params
scoreStats(stats, b, params) ==
    LET numPrefilled == Cardinality({x \in DOMAIN b.data : ~IsNull(b.data[x])})
        s1 == addToScore([scoreMSE |-> Rat(0, 1), countMSE |-> 0],
                         stats.solutionDepth, params.targetSolutionDepth, Rat(2, 1))
        s2 == addToScore(s1, stats.deadEnds, params.targetDeadEnds, Rat(2, 1))
        s3 == addToScore(s2, stats.steps, params.targetTotalSteps, Rat(3, 2))
        s4 == addToScore(s3, b.rows * b.cols - numPrefilled, b.rows * b.cols,
                         Rat(1, 5))
    IN  s4.scoreMSE

(***************************************************************************)
(* Builder (src/unnamed/part_001): the parameters, and _trySolve.          *)
(***************************************************************************)
\* Builder.makeParamsFromDifficulty(level)
makeParamsFromDifficulty(lvl) ==
    LET level == IF lvl < 1 THEN 1 ELSE lvl
    IN  IF level < 3
        THEN [maxSolverBranches |-> 0, maxDeadEndDepth |-> 0, maxDeadEndSteps |-> 0,
              maxTotalSteps |-> 100, maxSolutionDepth |-> 0,
              targetSolutionDepth |-> 0, targetDeadEnds |-> 0,
              targetTotalSteps |-> level * 10, numPuzzleIterations |-> 2]
        ELSE IF level < 5
        THEN [maxSolverBranches |-> 0, maxDeadEndDepth |-> 0, maxDeadEndSteps |-> 0,
              maxTotalSteps |-> 1000, maxSolutionDepth |-> 0,
              targetSolutionDepth |-> 0, targetDeadEnds |-> 0,
              targetTotalSteps |-> (level - 2) * 100, numPuzzleIterations |-> 2]
        ELSE [maxSolverBranches |-> 10 * (level - 4),
              maxDeadEndDepth |-> IF level < 8 THEN 0 ELSE level - 7,
              maxDeadEndSteps |-> IF level < 8 THEN (level - 4) * 2
                                  ELSE (level - 7) * 20,
              maxTotalSteps |-> 10000 * level, maxSolutionDepth |-> level - 2,
              targetSolutionDepth |-> level - 4,
              targetDeadEnds |-> (level - 4) * 2,
              targetTotalSteps |-> level * 100, numPuzzleIterations |-> 2]

\* Builder.setBuilderParams(params): what params leaves out is the default
defaultParams ==
    [maxSolverBranches |-> 10, maxDeadEndDepth |-> 0, maxDeadEndSteps |-> 3,
     maxTotalSteps |-> 1000, maxSolutionDepth |-> 3, targetSolutionDepth |-> 3,
     targetDeadEnds |-> 2, targetTotalSteps |-> 300, numPuzzleIterations |-> 10]

setBuilderParams(params) ==
    [key \in DOMAIN defaultParams |->
        IF key \in DOMAIN params THEN params[key] ELSE defaultParams[key]]

\* A whole call of Solver.simpleSolveBatch on board b, as the Builder makes
\* it: the passes of the loop from one with numSteps steps so far.  A pass
\* that solved a line and left every cell as it was is followed by the same
\* pass for ever: ended is then "forever", the call does not return.
RECURSIVE simpleSolveBatchFrom(_, _)
simpleSolveBatchFrom(b, numSteps) ==
    CHOOSE out \in
        {IF r.ended # "again" THEN r
         ELSE IF r.board = b THEN [r EXCEPT !.ended = "forever"]
         ELSE simpleSolveBatchFrom(r.board, r.numSteps) :
            r \in {batchPass(b, numSteps)}} : TRUE

simpleSolveBatch(b) == simpleSolveBatchFrom(b, 0)

\* What a call of findSolutionsFromState in _trySolve comes to: it returns
\* result, throws error, or never returns.  ctx is what the closure
\* shares: foundSolution, visitedSet (token and result), numBranches,
\* curTotalSteps.  solutionDepth is <<>> where the source has undefined.
NoStats == [maxDepth |-> 0, steps |-> 0, deadEnds |-> 0, solution |-> FALSE,
            solutionDepth |-> <<>>, cached |-> FALSE]

NoError == [message |-> "", mismatchedIndexes |-> <<>>]

Returned(result, ctx) ==
    [outcome |-> "return", result |-> result, error |-> NoError, ctx |-> ctx]

Thrown(message, mismatchedIndexes, ctx) ==
    [outcome |-> "throw", result |-> NoStats,
     error |-> [message |-> message, mismatchedIndexes |-> mismatchedIndexes],
     ctx |-> ctx]

NeverReturns(ctx) ==
    [outcome |-> "forever", result |-> NoStats, error |-> NoError, ctx |-> ctx]

\* Lines 216-220: the indexes (0-based, ascending) of the cells of data that
\* differ from the filled board's
RECURSIVE mismatchedIndexesFrom(_, _, _)
mismatchedIndexesFrom(data, filledData, x) ==
    IF x > Len(data) THEN <<>>
    ELSE (IF data[x] # filledData[x] THEN <<x - 1>> ELSE <<>>)
         \o mismatchedIndexesFrom(data, filledData, x + 1)

\* visitedSet[token] = deepCopy(result); visitedSet[token].cached = true
cacheResult(ctx, token, result) ==
    [ctx EXCEPT !.visitedSet =
        {e \in @ : e.token # token}
            \cup {[token |-> token, result |-> [result EXCEPT !.cached = TRUE]]}]

\* A mutant of overMaximum: no maximum is ever found exceeded.
overMaximumNever(value, maximum) == FALSE

\* The tests of lines 212, 243, 269, 270, 296 and 297: a count is over the
\* maximum the params give it
overMaximum(value, maximum) == value > maximum

RECURSIVE trySolveFrom(_, _, _)
RECURSIVE tryValuesFrom(_, _, _, _, _, _)

\* Lines 250-282: the loop over possibleValue for the first unknown cell x
\* of board b, from possibleValue on; it holds itMaxDepth, itSolveSteps,
\* itSolution, itDeadEnds, itSolutionDepth.
tryValuesFrom(env, ctx, b, x, possibleValue, it) ==
    IF possibleValue > env.maxValue
    THEN [outcome |-> "return", it |-> it, error |-> NoError, ctx |-> ctx]
    ELSE CHOOSE out \in
        {IF call.outcome # "return"
         THEN [outcome |-> call.outcome, it |-> it, error |-> call.error,
               ctx |-> call.ctx]
         ELSE LET res == call.result
                  it1 == [itSolution |-> it.itSolution \/ res.solution,
                          itSolutionDepth |-> IF res.solution THEN res.solutionDepth
                                              ELSE it.itSolutionDepth,
                          itMaxDepth |-> IF res.maxDepth > it.itMaxDepth
                                         THEN res.maxDepth ELSE it.itMaxDepth,
                          itSolveSteps |-> IF ~res.cached
                                           THEN it.itSolveSteps + res.steps
                                           ELSE it.itSolveSteps,
                          itDeadEnds |-> IF ~res.solution /\ ~res.cached
                                         THEN it.itDeadEnds + 1 ELSE it.itDeadEnds]
              IN  IF ~res.solution /\ overMaximum(res.maxDepth, env.params.maxDeadEndDepth)
                  THEN [outcome |-> "throw", it |-> it1, ctx |-> call.ctx,
                        error |-> [message |-> "hit max dead end depth",
                                   mismatchedIndexes |-> <<>>]]
                  ELSE IF ~res.solution /\ overMaximum(res.steps, env.params.maxDeadEndSteps)
                  THEN [outcome |-> "throw", it |-> it1, ctx |-> call.ctx,
                        error |-> [message |-> "hit max dead end steps",
                                   mismatchedIndexes |-> <<>>]]
                  ELSE tryValuesFrom(env, call.ctx, b, x, possibleValue + 1, it1) :
            call \in {trySolveFrom(env, ctx,
                          partialCopyBoard([b EXCEPT !.data[x] = Num(possibleValue)]))}} :
        TRUE

\* A mutant of solvedStats: the solution is counted as a dead end.
solvedStatsAsDeadEnd(steps) ==
    [NoStats EXCEPT !.steps = steps, !.solution = TRUE, !.solutionDepth = <<0>>,
                    !.deadEnds = 1]

\* Lines 230-236: the result for a board that propagation solved
solvedStats(steps) ==
    [NoStats EXCEPT !.steps = steps, !.solution = TRUE, !.solutionDepth = <<0>>]

\* Lines 194-291 after solver.simpleSolveBatch() ended as r says
afterSimpleSolve(env, ctx, r) ==
    IF r.ended = "forever" THEN NeverReturns(ctx)
    ELSE IF r.ended = "throw"
    THEN Thrown("Valid line solution contradicts line?", <<>>, ctx)
    ELSE IF r.ended = "contradiction"
    THEN Returned([NoStats EXCEPT !.steps = r.numSteps, !.deadEnds = 1], ctx)
    ELSE
    LET token == makeToken(r.board)
        total == ctx.curTotalSteps + r.numSteps
        ctx1 == [ctx EXCEPT !.curTotalSteps = total]
        mismatched == mismatchedIndexesFrom(r.board.data, env.filledBoard.data, 1)
        unknowns == {x \in DOMAIN r.board.data : IsNull(r.board.data[x])}
        ctx2 == [ctx1 EXCEPT !.numBranches = @ + 1]
        tried == IF unknowns = {}
                 THEN [outcome |-> "return", error |-> NoError, ctx |-> ctx2,
                       it |-> [itMaxDepth |-> 0, itSolveSteps |-> r.numSteps,
                               itSolution |-> FALSE, itDeadEnds |-> 0,
                               itSolutionDepth |-> <<>>]]
                 ELSE tryValuesFrom(env, ctx2, r.board, Min(unknowns), 0,
                          [itMaxDepth |-> 0, itSolveSteps |-> r.numSteps,
                           itSolution |-> FALSE, itDeadEnds |-> 0,
                           itSolutionDepth |-> <<>>])
    IN  IF \E e \in ctx.visitedSet : e.token = token
        THEN Returned((CHOOSE e \in ctx.visitedSet : e.token = token).result, ctx)
        ELSE IF overMaximum(total, env.params.maxTotalSteps)
        THEN Thrown("hit max total steps", <<>>, ctx1)
        ELSE IF r.remainingUnknowns = 0
        THEN IF mismatched # <<>>
             THEN Thrown("wrong/ambiguous solution", mismatched, ctx1)
             ELSE IF ctx.foundSolution
             THEN Thrown("non-unique solution", <<>>, ctx1)
             ELSE LET result == solvedStats(r.numSteps)
                  IN  Returned(result,
                          cacheResult([ctx1 EXCEPT !.foundSolution = TRUE],
                                      token, result))
        ELSE IF overMaximum(ctx2.numBranches, env.params.maxSolverBranches)
        THEN Thrown("hit max branches", <<>>, ctx2)
        ELSE IF tried.outcome = "throw"
        THEN Thrown(tried.error.message, tried.error.mismatchedIndexes, tried.ctx)
        ELSE IF tried.outcome = "forever" THEN NeverReturns(tried.ctx)
        ELSE LET result ==
                     [maxDepth |-> tried.it.itMaxDepth + 1,
                      steps |-> tried.it.itSolveSteps,
                      solution |-> tried.it.itSolution,
                      deadEnds |-> tried.it.itDeadEnds,
                      solutionDepth |->
                          IF tried.it.itSolutionDepth = <<>> THEN <<>>
                          ELSE <<tried.it.itSolutionDepth[1] + 1>>,
                      cached |-> FALSE]
             IN  Returned(result, cacheResult(tried.ctx, token, result))

\* findSolutionsFromState(solver) of _trySolve, lines 191-292
trySolveFrom(env, ctx, b) ==
    CHOOSE out \in {afterSimpleSolve(env, ctx, r) : r \in {simpleSolveBatch(b)}} : TRUE

\* Builder._trySolve(board), for the builder with filledBoard and params
trySolve(b, filledBoard, params) ==
    CHOOSE out \in
        {IF call.outcome # "return" THEN call
         ELSE IF ~call.result.solution
         THEN Thrown("Tried to solve unsolvable puzzle", <<>>, call.ctx)
         ELSE IF overMaximum(call.result.solutionDepth[1], params.maxSolutionDepth)
         THEN Thrown("hit max solution depth", <<>>, call.ctx)
         ELSE IF overMaximum(call.result.steps, params.maxTotalSteps)
         THEN Thrown("hit max total steps", <<>>, call.ctx)
         ELSE call :
            call \in {trySolveFrom(
                         [filledBoard |-> filledBoard, params |-> params,
                          maxValue |-> getMaxValue(b)],
                         [foundSolution |-> FALSE, visitedSet |-> {},
                          numBranches |-> 0, curTotalSteps |-> 0],
                         partialCopyBoard(b))}} : TRUE

(***************************************************************************)
(* BuilderSpec: Builder.buildPuzzleFromData(board, level) on a filled      *)
(* board, and then, as the demo script does, the solver on the board it    *)
(* returned.                                                               *)
(***************************************************************************)
Levels == {0, 1, 2, 4, 5, 8}

\* the params of the callers that make their own Builder: the solver
\* branches and the steps they allow, and the steps they aim at, in two
\* iterations
OwnParams ==
    {[maxSolverBranches |-> m, maxTotalSteps |-> s, targetTotalSteps |-> t,
      numPuzzleIterations |-> 2] :
        m \in {0, 10}, s \in {3, 1000}, t \in {2, 4}}

\* The call of _trySolve made last (line 318): the board it was given,
\* whether it returned (tsr) or threw (ex), and the counters of its closure
\* when it ended.
NoTry ==
    [board |-> NoBoard, outcome |-> "none", result |-> NoStats, error |-> NoError,
     numBranches |-> 0, curTotalSteps |-> 0]

lastTry(b, t) ==
    [board |-> b, outcome |-> t.outcome, result |-> t.result, error |-> t.error,
     numBranches |-> t.ctx.numBranches, curTotalSteps |-> t.ctx.curTotalSteps]

\* new Builder(board, params), lines 68-72, and buildPuzzle() up to its
\* loop, lines 412-414
newBuilder(filledBoard, level, params) ==
    [pc |-> "iterating", level |-> level, params |-> setBuilderParams(params),
     filledBoard |-> [filledBoard EXCEPT
                         !.rowClues = makeCluesFromData(filledBoard).rowClues,
                         !.colClues = makeCluesFromData(filledBoard).colClues],
     i |-> 0, board |-> NoBoard, lastScore |-> <<>>,
     best |-> [score |-> <<>>, board |-> NoBoard, stats |-> NoStats],
     candidates |-> {}, cbRet |-> TRUE, tried |-> NoTry, error |-> ""]

\* Board.clearData(), value = null
clearData(b) == [b EXCEPT !.data = [x \in DOMAIN b.data |-> Null]]

NoScore == <<>>

NoBest == [score |-> NoScore, board |-> NoBoard, stats |-> NoStats]

\* A mutant of puzzleCb: the best board is a new Board, not the candidate.
puzzleCbNewBoard(st, b, stats) ==
    LET score == scoreStats([stats EXCEPT !.solutionDepth = @[1]], b, st.params)
        better == st.best.score = NoScore \/ RatLess(score, st.best.score[1])
        stop == st.lastScore # NoScore /\ RatLess(st.lastScore[1], score)
    IN  [st EXCEPT !.best = IF better
                            THEN [score |-> <<score>>, stats |-> stats,
                                  board |-> [b EXCEPT !.data =
                                                [x \in DOMAIN b.data |-> Num(0)]]]
                            ELSE @,
                   !.candidates = @ \cup {[score |-> score, board |-> b,
                                           stats |-> stats]},
                   !.lastScore = IF stop THEN @ ELSE <<score>>,
                   !.cbRet = ~stop]

\* A mutant of puzzleCb: a candidate replaces the best one when it scores
\* higher.
puzzleCbKeepsHighest(st, b, stats) ==
    LET score == scoreStats([stats EXCEPT !.solutionDepth = @[1]], b, st.params)
        better == st.best.score = NoScore \/ RatLess(st.best.score[1], score)
        stop == st.lastScore # NoScore /\ RatLess(st.lastScore[1], score)
    IN  [st EXCEPT !.best = IF better
                            THEN [score |-> <<score>>, stats |-> stats, board |-> b]
                            ELSE @,
                   !.candidates = @ \cup {[score |-> score, board |-> b,
                                           stats |-> stats]},
                   !.lastScore = IF stop THEN @ ELSE <<score>>,
                   !.cbRet = ~stop]

\* The callback of buildPuzzle, lines 417-429, called with the candidate b
\* and its stats: st holds bestScore, bestStats and bestBoard (best),
\* lastScore and what the callback returned (cbRet); candidates collects
\* what the callback was called with.
puzzleCb(st, b, stats) ==
    LET score == scoreStats([stats EXCEPT !.solutionDepth = @[1]], b, st.params)
        better == st.best.score = NoScore \/ RatLess(score, st.best.score[1])
        stop == st.lastScore # NoScore /\ RatLess(st.lastScore[1], score)
    IN  [st EXCEPT !.best = IF better
                            THEN [score |-> <<score>>, stats |-> stats, board |-> b]
                            ELSE @,
                   !.candidates = @ \cup {[score |-> score, board |-> b,
                                           stats |-> stats]},
                   !.lastScore = IF stop THEN @ ELSE <<score>>,
                   !.cbRet = ~stop]

\* Lines 329-362: the cells one of which is filled in next.  b is the
\* puzzle so far, solved what simpleSolveBatch made of a copy of it,
\* tryIndexes the mismatchedIndexes of the error _trySolve threw (<<>> for
\* none); Math.random() may give any number of [0, 1).
revealChoices(b, solved, remainingUnknowns, tryIndexes) ==
    LET others == IF remainingUnknowns > 1
                  THEN {x \in DOMAIN b.data : IsNull(solved.data[x])}
                  ELSE {x \in DOMAIN b.data : IsNull(b.data[x])}
    IN  IF tryIndexes # <<>>
        THEN {tryIndexes[k] + 1 : k \in DOMAIN tryIndexes} \cup others
        ELSE others

\* board.data[idx] = this.filledBoard.data[idx], for the cells of picked
reveal(b, filledBoard, picked) ==
    [b EXCEPT !.data = [x \in DOMAIN b.data |->
                           IF x \in picked THEN filledBoard.data[x] ELSE b.data[x]]]

\* the filled board of the caller; no Builder yet
BuilderInit ==
    /\ \E pic \in Pictures :
           builder = [pc |-> "start", filledBoard |-> pictureBoard(pic),
                      level |-> -1, params |-> defaultParams,
                      i |-> 0, board |-> NoBoard, lastScore |-> NoScore,
                      best |-> NoBest, candidates |-> {}, cbRet |-> TRUE,
                      tried |-> NoTry, error |-> ""]
    /\ board = NoBoard
    /\ batch = NoBatch
    /\ calls = <<>>
    /\ search = NoSearch
    /\ line = <<>> /\ clues = <<>> /\ log = <<>>
    /\ scores = NoScores
    /\ tokens = NoTokens

\* Builder.buildPuzzleFromData(board, level), lines 88-91
BuildPuzzleFromData ==
    /\ builder.pc = "start"
    /\ \E level \in Levels :
           builder' = newBuilder(builder.filledBoard, level,
                                 makeParamsFromDifficulty(level))
    /\ UNCHANGED <<board, batch, calls, search, line, clues, log, scores, tokens>>

\* new Builder(board, params).buildPuzzle(), with params of the caller
BuildPuzzle ==
    /\ builder.pc = "start"
    /\ \E params \in OwnParams :
           builder' = newBuilder(builder.filledBoard, -1, params)
    /\ UNCHANGED <<board, batch, calls, search, line, clues, log, scores, tokens>>

\* One more iteration of buildPuzzle, lines 415-417, and _tryRandomPuzzle
\* up to its loop, lines 311-312
TryRandomPuzzle ==
    /\ builder.pc = "iterating"
    /\ builder.i < builder.params.numPuzzleIterations
    /\ builder' = [builder EXCEPT
           !.pc = "trying",
           !.lastScore = NoScore,
           !.board = clearData(partialCopyBoard(builder.filledBoard))]
    /\ UNCHANGED <<board, batch, calls, search, line, clues, log, scores, tokens>>

\* One round of the loop of _tryRandomPuzzle, lines 314-369
RevealCell ==
    /\ builder.pc = "trying"
    /\ \E t \in {trySolve(builder.board, builder.filledBoard, builder.params)} :
       \E st \in {IF t.outcome = "return"
                  THEN puzzleCb([builder EXCEPT !.tried = lastTry(builder.board, t)],
                                partialCopyBoard(builder.board), t.result)
                  ELSE [builder EXCEPT !.cbRet = TRUE,
                                       !.tried = lastTry(builder.board, t)]} :
       \E r \in {simpleSolveBatch(partialCopyBoard(builder.board))} :
           IF t.outcome = "forever"
           THEN builder' = [st EXCEPT !.pc = "hung"]
           ELSE IF ~st.cbRet
           THEN builder' = [st EXCEPT !.pc = "iterating", !.i = @ + 1]
           ELSE IF r.ended = "forever"
           THEN builder' = [st EXCEPT !.pc = "hung"]
           ELSE IF r.ended = "contradiction"
           THEN builder' = [st EXCEPT !.pc = "thrown",
                    !.error = "got solver contradiction while building puzzle"]
           ELSE IF r.ended = "throw"
           THEN builder' = [st EXCEPT !.pc = "thrown",
                    !.error = "Valid line solution contradicts line?"]
           ELSE \E picked \in
                    {{x} : x \in revealChoices(builder.board, r.board,
                                     r.remainingUnknowns,
                                     t.error.mismatchedIndexes)}
                    \cup (IF \E x \in DOMAIN builder.board.data :
                                 IsNull(builder.board.data[x])
                          THEN {} ELSE {{}}) :
                LET next == reveal(builder.board, builder.filledBoard, picked)
                IN  builder' =
                        IF \E x \in DOMAIN next.data : IsNull(next.data[x])
                        THEN [st EXCEPT !.board = next]
                        ELSE [st EXCEPT !.board = next,
                                         !.pc = "iterating", !.i = @ + 1]
    /\ UNCHANGED <<board, batch, calls, search, line, clues, log, scores, tokens>>

\* buildPuzzle returns, lines 431-435; the caller goes on with res.board
BuildPuzzleReturns ==
    /\ builder.pc = "iterating"
    /\ builder.i >= builder.params.numPuzzleIterations
    /\ builder' = [builder EXCEPT !.pc = "returned"]
    /\ board' = builder.best.board
    /\ UNCHANGED <<batch, calls, search, line, clues, log, scores, tokens>>

BuilderNext ==
    \/ BuildPuzzleFromData
    \/ BuildPuzzle
    \/ TryRandomPuzzle
    \/ RevealCell
    \/ BuildPuzzleReturns
    \/ SimpleSolveBatch
    \/ BatchNextPass
    \/ FindPossibleSolutions
    \/ SearchBatchPass
    \/ SearchStep

BuilderSpec == BuilderInit /\ [][BuilderNext]_vars

(***************************************************************************)
(* TokenSpec: two boards of the same dimensions, the second made from a    *)
(* copy of the first by Board.set, and the tokens makeToken gives them.    *)
(***************************************************************************)
\* what a cell of a board holds: null, a value, or a set of two values
TokenCells ==
    {Null} \cup {Num(v) : v \in Values} \cup {Arr(p) : p \in ValuePairs}

dataBoard(data) ==
    [rows |-> MinRows, cols |-> MaxCols, rowClues |-> <<>>, colClues |-> <<>>,
     data |-> data]

\* the first board holds at most one set of values, as the boards of Spec
TokenInit ==
    /\ \E data \in [Cells -> TokenCells] :
           /\ Cardinality({x \in Cells : IsArray(data[x])}) <= 1
           /\ tokens = [pc |-> "boards", first |-> dataBoard(data),
                        second |-> partialCopyBoard(dataBoard(data)),
                        sets |-> 0, token |-> <<>>]
    /\ line = <<>> /\ clues = <<>> /\ log = <<>>
    /\ board = NoBoard
    /\ batch = NoBatch
    /\ calls = <<>>
    /\ search = NoSearch
    /\ builder = NoBuilder
    /\ scores = NoScores

\* second.set(row, col, value)
SetCell ==
    /\ tokens.pc = "boards"
    /\ tokens.sets < MaxSets
    /\ \E row \in 0..(MinRows - 1), col \in 0..(MaxCols - 1), value \in TokenCells :
           tokens' = [tokens EXCEPT !.second = set(@, row, col, value),
                                    !.sets = @ + 1]
    /\ UNCHANGED <<line, clues, log, board, batch, calls, search, builder, scores>>

\* first.makeToken() and second.makeToken()
MakeToken ==
    /\ tokens.pc = "boards"
    /\ tokens' = [tokens EXCEPT !.pc = "made",
                                !.token = <<makeToken(tokens.first),
                                            makeToken(tokens.second)>>]
    /\ UNCHANGED <<line, clues, log, board, batch, calls, search, builder, scores>>

TokenNext == SetCell \/ MakeToken

TokenSpec == TokenInit /\ [][TokenNext]_vars

(***************************************************************************)
(* ScoreSpec: _scoreStats is asked for the scores of two candidates that   *)
(* differ in solutionDepth only.                                           *)
(***************************************************************************)
\* a board with its first prefilled cells filled in
prefilledBoard(prefilled) ==
    [rows |-> MinRows, cols |-> MaxCols, rowClues |-> <<>>, colClues |-> <<>>,
     data |-> [x \in Cells |-> IF x <= prefilled THEN Num(0) ELSE Null]]

StepCounts == {0, 4, 10, 25}

StepTargets == {0, 10, 300}

ScoreInit ==
    /\ scores \in [pc : {"ask"},
                   targetSolutionDepth : 0..MaxDepth,
                   targetDeadEnds : 0..MaxDeadEnds,
                   targetTotalSteps : StepTargets,
                   prefilled : 0..(MinRows * MaxCols),
                   deadEnds : 0..MaxDeadEnds,
                   steps : StepCounts,
                   depths : (0..MaxDepth) \X (0..MaxDepth)]
    /\ line = <<>>
    /\ clues = <<>>
    /\ log = <<>>
    /\ board = NoBoard
    /\ batch = NoBatch
    /\ calls = <<>>
    /\ search = NoSearch
    /\ builder = NoBuilder
    /\ tokens = NoTokens

ScoreStats ==
    /\ scores.pc = "ask"
    /\ scores' =
         [pc |-> "scored",
          targetSolutionDepth |-> scores.targetSolutionDepth,
          depths |-> scores.depths,
          score |-> [i \in 1..2 |->
              scoreStats([solutionDepth |-> scores.depths[i],
                          deadEnds |-> scores.deadEnds,
                          steps |-> scores.steps],
                         prefilledBoard(scores.prefilled),
                         scores)]]
    /\ UNCHANGED <<line, clues, log, board, batch, calls, search, builder, tokens>>

ScoreNext == ScoreStats

ScoreSpec == ScoreInit /\ [][ScoreNext]_vars

(***************************************************************************)
(* LineSpec: a caller holds a line and a clue sequence and calls           *)
(* Solver.simpleSolveLine on them, again and again.                        *)
(***************************************************************************)

CellValues ==
    {Null} \cup {Num(n) : n \in {0} \cup Colours}
           \cup {Arr(<<p[1], p[2]>>) : p \in ValuePairs}

Lines == UNION {[1..n -> CellValues] : n \in 1..MaxLen}

Clue == [value : Colours, run : 1..(MaxLen + 1)]

RECURSIVE SumRuns(_)
SumRuns(cl) == IF cl = <<>> THEN 0 ELSE Head(cl).run + SumRuns(Tail(cl))

\* The clue sequences whose runs total at most one more than the longest line
ClueSeqs ==
    {cl \in UNION {[1..n -> Clue] : n \in 0..MaxClues} : SumRuns(cl) <= MaxLen + 1}

LineInit ==
    /\ line \in Lines
    /\ clues \in ClueSeqs
    /\ log = <<>>
    /\ board = NoBoard
    /\ batch = NoBatch
    /\ calls = <<>>
    /\ search = NoSearch
    /\ builder = NoBuilder
    /\ scores = NoScores
    /\ tokens = NoTokens

SolveLine ==
    /\ Len(log) < MaxCalls
    /\ LET r == simpleSolveLine(line, clues)
       IN  /\ line' = r.line
           /\ log' = Append(log, [entry |-> line, status |-> r.status,
                                  numSolved |-> r.numSolved,
                                  numUnknowns |-> r.numUnknowns,
                                  exit |-> r.line])
    /\ UNCHANGED <<clues, board, batch, calls, search, builder, scores, tokens>>

LineNext == SolveLine

LineSpec == LineInit /\ [][LineNext]_vars

(***************************************************************************)
(* What the claims about simpleSolveLine speak of: the complete            *)
(* assignments of a line that match a clue sequence.                       *)
(***************************************************************************)

\* the values a cell allows; an unknown cell allows every value
ValueSet(cell) ==
    IF IsNull(cell) THEN Values ELSE {cell.v[i] : i \in DOMAIN cell.v}

Undetermined(cell) == IsNull(cell) \/ (IsArray(cell) /\ Len(cell.v) > 1)

\* The runs of non-blank cells of a complete assignment a from position i
\* (1-based) on, as clues: a run ends where the value changes.
RECURSIVE RunsFrom(_, _)
RunsFrom(a, i) ==
    IF i > Len(a) THEN <<>>
    ELSE IF a[i] = 0 THEN RunsFrom(a, i + 1)
    ELSE LET after == {j \in i..Len(a) : a[j] # a[i]}
             stop == IF after = {} THEN Len(a) + 1 ELSE Min(after)
         IN  <<[value |-> a[i], run |-> stop - i]>> \o RunsFrom(a, stop)

\* a matches cl: its runs are the clues, in order (same-colour runs are then
\* separated by a blank, different-colour runs may abut, the rest is blank)
Matches(a, cl) == RunsFrom(a, 1) = cl

Consistent(a, ln) == \A i \in DOMAIN ln : a[i] \in ValueSet(ln[i])

\* the valid placements of cl in the line ln
Placements(ln, cl) ==
    {a \in [DOMAIN ln -> Values] : Matches(a, cl) /\ Consistent(a, ln)}

\* how the union u of the values of a cell is stored in a line solved for cl
StoredAs(cell, u, cl) ==
    IF Cardinality(u) = 1 THEN \E x \in u : cell = Num(x)
    ELSE IF u = {0} \cup {cl[i].value : i \in DOMAIN cl} THEN cell = Null
    ELSE IsArray(cell) /\ ValueSet(cell) = u /\ Len(cell.v) = Cardinality(u)

\* C1: soundness of simpleSolveLine. Whenever a call returns a non-null
\* result, every complete assignment that matches the clues and is consistent
\* with the line on entry is still consistent with the line on return.
C1_Sound ==
    \A j \in DOMAIN log :
        log[j].status = "ok" =>
            \A a \in Placements(log[j].entry, clues) : Consistent(a, log[j].exit)

\* a call that narrowed a line that has two placements or more
C1_Witness ==
    \E j \in DOMAIN log :
        /\ log[j].status = "ok"
        /\ log[j].exit # log[j].entry
        /\ Cardinality(Placements(log[j].entry, clues)) >= 2
        /\ \E i \in DOMAIN log[j].entry : IsArray(log[j].entry[i])

\* C2: completeness of simpleSolveLine. For a line with an undetermined cell
\* and clues that have a valid placement, the call succeeds and every cell
\* holds exactly the union of the values it takes over the valid placements.
C2_Complete ==
    \A j \in DOMAIN log :
        LET ps == Placements(log[j].entry, clues)
        IN  (\E i \in DOMAIN log[j].entry : Undetermined(log[j].entry[i])) /\ ps # {}
            => /\ log[j].status = "ok"
               /\ \A i \in DOMAIN log[j].entry :
                      StoredAs(log[j].exit[i], {a[i] : a \in ps}, clues)

\* a call that left one cell determined, one unknown and one an array
C2_Witness ==
    \E j \in DOMAIN log :
        /\ log[j].status = "ok"
        /\ \E i \in DOMAIN log[j].entry : IsNull(log[j].entry[i])
        /\ \E i \in DOMAIN log[j].exit : IsArray(log[j].exit[i])
        /\ \E i \in DOMAIN log[j].exit :
               IsNull(log[j].entry[i]) /\ log[j].exit[i].k = "num"

\* C3: simpleSolveLine returns null for every line and clue sequence with
\* no placement of the clues consistent with the line.
C3_NullWhenUnsatisfiable ==
    \A j \in DOMAIN log :
        Placements(log[j].entry, clues) = {} => log[j].status = "null"

\* C4: idempotence of simpleSolveLine. After a call that succeeded, the next
\* call with the same clues succeeds and leaves every cell unchanged.
C4_Idempotent ==
    \A j \in DOMAIN log :
        j > 1 /\ log[j - 1].status = "ok"
            => log[j].status = "ok" /\ log[j].exit = log[j].entry

\* a second call on a line the first call narrowed and left undetermined cells in
C4_Witness ==
    /\ Len(log) >= 2
    /\ log[1].status = "ok"
    /\ log[1].exit # log[1].entry
    /\ \E i \in DOMAIN log[2].entry : Undetermined(log[2].entry[i])
    /\ log[2].status = "ok"

C6_SingleClueOverlap ==
    \A j \in DOMAIN log :
        LET n == Len(log[j].entry)
        IN  /\ \A i \in 1..n : IsNull(log[j].entry[i])
            /\ Len(clues) = 1
            /\ clues[1].run <= n
            => /\ log[j].status = "ok"
               /\ \A p \in 0..(n - 1) :
                      log[j].exit[p + 1] =
                          IF n - clues[1].run <= p /\ p <= clues[1].run - 1
                          THEN Num(clues[1].value) ELSE Null

\* the longest all-unknown line, a run that is neither the whole line nor
\* too short to overlap: the middle is determined, both ends are not
C6_Witness ==
    /\ Len(log) >= 1
    /\ Len(log[1].entry) = MaxLen
    /\ \A i \in DOMAIN log[1].entry : IsNull(log[1].entry[i])
    /\ Len(clues) = 1
    /\ clues[1].run = MaxLen - 1
    /\ IsNull(log[1].exit[1])
    /\ IsNull(log[1].exit[MaxLen])
    /\ log[1].exit[2] = Num(clues[1].value)

(***************************************************************************)
(* Claims about simpleSolveBatch and findPossibleSolutions, under Spec.     *)
(***************************************************************************)
\* a call of simpleSolveBatch that returned a result with contradiction false
ReturnedNoContradiction(call) == ~call.thrown /\ ~call.contradiction

UndeterminedCells(data) == {x \in DOMAIN data : Undetermined(data[x])}

\* C7: simpleSolveBatch returns as soon as one full pass over all rows and
\* all columns narrows no cell: a call never goes round its loop again after
\* a pass that left every cell of the board as it was.
C7_ReturnsWhenNoCellChanges ==
    batch.pc = "looping" => batch.changed

\* C8: if a call of simpleSolveBatch returned without contradiction, the
\* next call on the resulting board returns, after one pass, steps = 0
\* without contradiction, and leaves every cell of the board unchanged.
C8_BatchIdempotent ==
    /\ \A i \in 1..(Len(calls) - 1) :
           ReturnedNoContradiction(calls[i])
           => /\ ReturnedNoContradiction(calls[i + 1])
              /\ calls[i + 1].steps = 0
              /\ calls[i + 1].passes = 1
              /\ calls[i + 1].entry = calls[i].exit
              /\ calls[i + 1].exit = calls[i + 1].entry
    /\ (calls # <<>> /\ ReturnedNoContradiction(calls[Len(calls)]))
           => batch.pc # "looping"

\* a first call that solved lines of a board with unknown cells and returned
\* without contradiction, then a second call on the board it left
C8_Witness ==
    /\ Len(calls) = 2
    /\ ReturnedNoContradiction(calls[1])
    /\ calls[1].steps > 0
    /\ calls[1].passes > 1
    /\ calls[1].exit # calls[1].entry
    /\ calls[2].steps = 0

C10_SolutionsValid ==
    search.pc = "done"
    => \A i \in DOMAIN search.solutions :
           /\ UndeterminedCells(search.solutions[i].data) = {}
           /\ validate(search.solutions[i])

(***************************************************************************)
(* Claims about what a call of simpleSolveLine does to the cells and what  *)
(* it reports, under LineSpec.                                              *)
(***************************************************************************)
\* C19: simpleSolveLine never returns normally with a cell that held a
\* definite value on entry holding a different definite value.
C19_DefiniteCellsKept ==
    \A j \in DOMAIN log :
        log[j].status = "ok" =>
            \A i \in DOMAIN log[j].entry :
                (log[j].entry[i].k = "num" /\ log[j].exit[i].k = "num")
                => log[j].exit[i] = log[j].entry[i]

\* the value set of a cell of a line with clues cl, as toKnownArray gives
\* it: an unknown cell allows blank and the colours of the clues
LineValueSet(cell, cl) ==
    IF IsNull(cell) THEN {0} \cup {cl[i].value : i \in DOMAIN cl}
    ELSE ValueSet(cell)

\* the call strictly reduced the value set of a cell (an unknown cell that
\* became definite counts, also where the clues allow it one value only)
Reduced(before, after, cl) ==
    \/ /\ LineValueSet(after, cl) \subseteq LineValueSet(before, cl)
       /\ LineValueSet(after, cl) # LineValueSet(before, cl)
    \/ IsNull(before) /\ after.k = "num"

\* C20: in the pair a successful call returns, the first number is the count
\* of cells whose value set the call strictly reduced, the second the count
\* of cells whose value set still has more than one value.
C20_ResultCounts ==
    \A j \in DOMAIN log :
        log[j].status = "ok" =>
            /\ log[j].numSolved =
                   Cardinality({i \in DOMAIN log[j].entry :
                       Reduced(log[j].entry[i], log[j].exit[i], clues)})
            /\ log[j].numUnknowns =
                   Cardinality({i \in DOMAIN log[j].exit :
                       Cardinality(LineValueSet(log[j].exit[i], clues)) > 1})

(***************************************************************************)
(* Claims about findPossibleSolutions, under Spec.                          *)
(***************************************************************************)
\* the complete assignments of the grid of board b that satisfy all its row
\* and column clues and agree with its definite cells
ValidAssignments(b) ==
    {a \in Pictures :
        /\ makeCluesFromData(pictureBoard(a)).rowClues = b.rowClues
        /\ makeCluesFromData(pictureBoard(a)).colClues = b.colClues
        /\ \A x \in Cells : b.data[x].k = "num" => b.data[x] = Num(a[x])}

\* The innermost simpleSolveBatch of the search made a pass that solved a
\* line and left every cell as it was: every later pass does the same, and
\* neither that call nor findPossibleSolutions ever returns.
SearchLoopsForEver ==
    /\ search.pc = "running"
    /\ LET top == search.stack[Len(search.stack)]
       IN  top.pc = "batch" /\ top.passes >= 1 /\ ~top.changed

\* C11: findPossibleSolutions is complete: it returns a list, and every
\* complete assignment that satisfies all the clues and agrees with the
\* definite cells of the input board is in it.
C11_Complete ==
    \A a \in IF search.pc \in {"running", "done"}
             THEN ValidAssignments(search.board) ELSE {} :
        /\ ~SearchLoopsForEver
        /\ search.pc = "done"
               => \E i \in DOMAIN search.solutions :
                      search.solutions[i].data = pictureBoard(a).data

\* the shortest line the clues cl fit in: the runs, and one blank between
\* two runs of the same colour
RECURSIVE MinLength(_)
MinLength(cl) ==
    IF cl = <<>> THEN 0
    ELSE Head(cl).run
         + (IF Len(cl) > 1 /\ cl[2].value = cl[1].value THEN 1 ELSE 0)
         + MinLength(Tail(cl))

\* board b has a row or a column whose clues cannot fit the line length
CluesCannotFit(b) ==
    \/ \E r \in DOMAIN b.rowClues : MinLength(b.rowClues[r]) > b.cols
    \/ \E c \in DOMAIN b.colClues : MinLength(b.colClues[c]) > b.rows

\* C12: for every board, whatever its cell data, with a row or column whose
\* clues cannot fit the line length, findPossibleSolutions returns an empty
\* list.
C12_UnfitCluesNoSolutions ==
    (search.pc = "done" /\ CluesCannotFit(search.board))
        => search.solutions = <<>>

\* C13: findPossibleSolutions terminates: every call of
\* findSolutionsFromState ends (its simpleSolveBatch returns, and it ends in
\* a contradiction, a visited state or a determined board, or branches), and
\* every recursive call is made on a board with fewer undetermined cells
\* than its parent's.
C13_SearchTerminates ==
    /\ ~SearchLoopsForEver
    /\ \A d \in 2..Len(search.stack) :
           Cardinality(UndeterminedCells(search.stack[d].board.data))
               < Cardinality(UndeterminedCells(search.stack[d - 1].board.data))

(***************************************************************************)
(* Claims about Builder._scoreStats, under ScoreSpec.                       *)
(***************************************************************************)
\* C17: for two candidates with the same prefilled cells, deadEnds and steps
\* but different solutionDepth, the one whose solutionDepth is closer to
\* targetSolutionDepth gets a score no greater than the other's.
C17_ScoreMonotonic ==
    scores # <<>> /\ scores.pc = "scored" =>
        \A i, j \in 1..2 :
            Abs(scores.depths[i] - scores.targetSolutionDepth)
                < Abs(scores.depths[j] - scores.targetSolutionDepth)
            => ~RatLess(scores.score[j], scores.score[i])

\* two candidates on either side of a target that is not 0, the closer one
\* with the strictly lower score
C17_Witness ==
    /\ scores # <<>>
    /\ scores.pc = "scored"
    /\ scores.targetSolutionDepth = 2
    /\ scores.depths = <<3, 0>>
    /\ RatLess(scores.score[1], scores.score[2])


(***************************************************************************)
(* Claims about the Builder, under BuilderSpec.                            *)
(***************************************************************************)
\* buildPuzzle returned a board
ReturnedPuzzle == builder.pc = "returned" /\ builder.best.board # NoBoard

RevealedCells(b) == {x \in DOMAIN b.data : ~IsNull(b.data[x])}

\* the revealed cells of board b hold the values of the filled board
RevealsOfFilled(b) ==
    \A x \in RevealedCells(b) : b.data[x] = builder.filledBoard.data[x]

\* C14: in the board buildPuzzleFromData returns, every cell that is not
\* unknown holds the value of the same cell of the filled board; so do the
\* cells of the puzzle _tryRandomPuzzle is working on and of every candidate
\* it passed to the callback, after any reveals and iterations.
C14_RevealedCellsAreFilled ==
    /\ ReturnedPuzzle => RevealsOfFilled(builder.best.board)
    /\ builder.pc \in {"trying", "iterating", "returned"}
           => /\ builder.board # NoBoard => RevealsOfFilled(builder.board)
              /\ \A c \in builder.candidates : RevealsOfFilled(c.board)

\* a returned board with a cell revealed and a cell unknown, of a picture
\* that is not blank in the revealed cell
C14_Witness ==
    /\ ReturnedPuzzle
    /\ \E x \in RevealedCells(builder.best.board) :
           builder.best.board.data[x] # Num(0)
    /\ RevealedCells(builder.best.board) # DOMAIN builder.best.board.data

\* findPossibleSolutions was called on the board buildPuzzle returned
SearchOfReturnedPuzzle ==
    ReturnedPuzzle /\ search.pc # "none" /\ search.board = builder.best.board

\* C15: findPossibleSolutions on the board buildPuzzleFromData returned
\* comes to an end, and returns exactly one solution, whose data are the
\* filled board's.
C15_UniqueSolutionIsFilled ==
    SearchOfReturnedPuzzle
    => /\ ~SearchLoopsForEver
       /\ search.pc = "done"
              => /\ Len(search.solutions) = 1
                 /\ search.solutions[1].data = builder.filledBoard.data

\* the search of a returned board with unknown cells is done
C15_Witness ==
    /\ SearchOfReturnedPuzzle
    /\ search.pc = "done"
    /\ RevealedCells(builder.best.board) # DOMAIN builder.best.board.data
    /\ \E x \in DOMAIN builder.filledBoard.data :
           builder.filledBoard.data[x] # Num(0)

\* C16: with parameters of maxSolverBranches = 0 (levels 1 and 2), the
\* stats returned have solutionDepth 0 and deadEnds 0, and simpleSolveBatch
\* on the returned board ends with no contradiction and no undetermined cell.
C16_SolvedByPropagation ==
    (ReturnedPuzzle /\ builder.params.maxSolverBranches = 0)
    => /\ builder.best.stats.solutionDepth = <<0>>
       /\ builder.best.stats.deadEnds = 0
       /\ (calls = <<>> /\ board = builder.best.board) => C7_ReturnsWhenNoCellChanges
       /\ (calls # <<>> /\ calls[1].entry = builder.best.board.data)
              => /\ ReturnedNoContradiction(calls[1])
                 /\ calls[1].remainingUnknowns = 0
                 /\ UndeterminedCells(calls[1].exit) = {}

\* level 1: simpleSolveBatch returned from the returned board, which has
\* unknown cells, after several passes
C16_Witness ==
    /\ ReturnedPuzzle
    /\ builder.level = 1
    /\ calls # <<>>
    /\ calls[1].entry = builder.best.board.data
    /\ calls[1].passes > 1
    /\ UndeterminedCells(calls[1].entry) # {}

\* C18: buildPuzzle returns the lowest-scoring candidate of all iterations:
\* no candidate passed to the callback scored less than the returned score,
\* and the returned board and stats are those of a candidate with that score.
C18_ReturnsLowestScore ==
    builder.pc = "returned"
    => IF builder.candidates = {} THEN builder.best = NoBest
       ELSE /\ builder.best.score # NoScore
            /\ \A c \in builder.candidates :
                   ~RatLess(c.score, builder.best.score[1])
            /\ [score |-> builder.best.score[1], board |-> builder.best.board,
                stats |-> builder.best.stats] \in builder.candidates

\* buildPuzzle returned after candidates of different scores
C18_Witness ==
    /\ builder.pc = "returned"
    /\ \E c \in builder.candidates : RatLess(builder.best.score[1], c.score)
    /\ \E c \in builder.candidates : c.board # builder.best.board /\ c.stats # builder.best.stats


(***************************************************************************)
(* Claims about the contradiction return of simpleSolveBatch, under Spec.  *)
(***************************************************************************)
\* line k of board b (row k for k < rows, column k - rows after that) and
\* its clues
LineOf(b, k) == IF k < b.rows THEN getRow(b, k) ELSE getCol(b, k - b.rows)

CluesOf(b, k) ==
    IF k < b.rows THEN b.rowClues[k + 1] ELSE b.colClues[k - b.rows + 1]

\* solving narrowed the line: the value set of some cell was reduced
Narrowed(before, after, cl) ==
    \E i \in DOMAIN before : Reduced(before[i], after[i], cl)

\* The lines of board b are solved in the order of the passes, line k of a
\* pass next, until a line has no valid solution; left lines at most.  The
\* result is the data then, and the number of lines narrowed before.
RECURSIVE UpToUnsatisfiable(_, _, _, _)
UpToUnsatisfiable(b, k, narrowed, left) ==
    LET res == simpleSolveLine(LineOf(b, k), CluesOf(b, k))
        after == IF k < b.rows THEN setRow(b, k, res.line)
                 ELSE setCol(b, k - b.rows, res.line)
    IN  IF left = 0 \/ res.status # "ok"
        THEN [data |-> b.data, narrowed |-> narrowed]
        ELSE UpToUnsatisfiable(after, (k + 1) % (b.rows + b.cols),
                 IF Narrowed(LineOf(b, k), res.line, CluesOf(b, k))
                 THEN narrowed + 1 ELSE narrowed,
                 left - 1)

\* C21: when a line turns out unsatisfiable during simpleSolveBatch, the
\* call returns contradiction = true at once: neither that line nor a later
\* one is written back, and steps is the number of lines narrowed before it.
C21_ContradictionReturnsAtOnce ==
    \A i \in DOMAIN calls :
        calls[i].contradiction =>
            \E r \in {UpToUnsatisfiable([board EXCEPT !.data = calls[i].entry], 0, 0,
                          calls[i].passes * (board.rows + board.cols))} :
                /\ calls[i].exit = r.data
                /\ calls[i].steps = r.narrowed


(***************************************************************************)
(* Claims about the branching of findPossibleSolutions, under Spec.        *)
(***************************************************************************)
\* the cells before (row, col) in row-major order, as indexes of the data
CellsBefore(b, row, col) == 1..(row * b.cols + col)

\* C22: a search node that propagation left neither contradictory nor fully
\* determined branches: once a pass of simpleSolveBatch narrows nothing, the
\* node goes on to its first undetermined cell in row-major order and calls
\* itself for the values 0..maxValue in increasing order.
C22_BranchesOnFirstUndetermined ==
    \A d \in DOMAIN search.stack :
        LET node == search.stack[d]
        IN  /\ (node.pc = "batch" /\ node.passes >= 1 /\ ~node.changed)
                   => UndeterminedCells(node.board.data) = {}
            /\ node.pc = "branching"
                   => /\ \A x \in CellsBefore(node.board, node.row, node.col) :
                             ~Undetermined(node.board.data[x])
                      /\ node.possibleValues =
                             [i \in 1..(search.maxValue + 1) |-> i - 1]
                      /\ node.next \in 1..Len(node.possibleValues)


C24_TokenInjective ==
    (tokens.pc = "made" /\ tokens.token[1] = tokens.token[2])
    => tokens.first.data = tokens.second.data


TrySolveNeverBranches ==
    /\ builder.tried.numBranches = 0
    /\ builder.tried.result.deadEnds = 0
    /\ builder.tried.result.maxDepth = 0
    /\ ~builder.tried.result.cached

\* ... the only fault _trySolve raises is 'hit max total steps', never one
\* with mismatchedIndexes, ...
TrySolveThrowsOnlyStepLimit ==
    /\ builder.tried.error.message \in {"", "hit max total steps"}
    /\ builder.tried.error.mismatchedIndexes = <<>>
    /\ builder.tried.outcome = "throw" <=> builder.tried.error.message # ""

\* ... and no candidate of an attempt scores exactly what the candidate
\* before it did.
NoEqualConsecutiveScores ==
    [][(builder.pc = "trying" /\ builder.lastScore # NoScore
            /\ builder'.tried.outcome = "return" /\ builder'.cbRet)
       => builder'.lastScore # builder.lastScore]_vars

(***************************************************************************)
(* Claim about the reveal loop of Builder._tryRandomPuzzle, under          *)
(* BuilderSpec.                                                            *)
(***************************************************************************)
\* the cells of the puzzle board that a pass of the loop changed
ChangedCells == {x \in DOMAIN builder.board.data :
                    builder'.board.data[x] # builder.board.data[x]}

\* C30: a pass of the reveal loop that does not stop on the callback's word
\* changes exactly one cell of the puzzle board, an unknown one, to the
\* value the filled board has there, and no pass changes another cell; so
\* the attempt ends after at most rows x cols reveals: no pass is one that
\* never ends, and none throws 'got solver contradiction while building
\* puzzle'.
C30_RevealsOneCellAndEnds ==
    [][builder.pc = "trying" =>
          /\ builder'.pc \notin {"hung", "thrown"}
          /\ \A x \in ChangedCells :
                 /\ IsNull(builder.board.data[x])
                 /\ builder'.board.data[x] = builder.filledBoard.data[x]
          /\ Cardinality(ChangedCells) =
                 IF builder'.tried.outcome = "return" /\ ~builder'.cbRet
                 THEN 0 ELSE 1]_vars

====
